---- MODULE Spec2Model ----
(***************************************************************************)
(* FigureEight: helper of the fixed-wing position controller that flies a  *)
(* figure-eight loiter pattern (two circles joined by two tangent lines).  *)
(*                                                                         *)
(* Numbers.  The code computes in single-precision floats.  Here a world   *)
(* length is an integer number of metres and a value of the normalized     *)
(* frame is an integer number of 1/NORMALIZED_MAJOR_RADIUS steps (fixed    *)
(* point, every operation rounded to the nearest step, ties away from      *)
(* zero, so that rounding commutes with negation as it does for floats).   *)
(* A non-finite float is the value NaN: it propagates through arithmetic   *)
(* and makes every ordered comparison false.  Angles are counted in half   *)
(* turns (M_PI_F = 1 half turn): the orientations considered are whole     *)
(* half turns, for which every rotation is exact.                          *)
(***************************************************************************)
EXTENDS Integers, Sequences, FiniteSets, TLC

\* NORMALIZED_MAJOR_RADIUS{1.0f}: the value 1.0 of the normalized frame.
NORMALIZED_MAJOR_RADIUS == 200

\* A non-finite float (what PX4_ISFINITE rejects).
NaN == -1000000

PX4_ISFINITE(a) == a # NaN

Abs(a) == IF a < 0 THEN -a ELSE a

\* fabsf
fabsf(a) == IF a = NaN THEN NaN ELSE Abs(a)

\* a / b rounded to the nearest integer, ties away from zero.
RoundDiv(a, b) ==
    LET q == (2 * Abs(a) + Abs(b)) \div (2 * Abs(b))
    IN  IF (a < 0) = (b < 0) THEN q ELSE -q

FNeg(a) == IF a = NaN THEN NaN ELSE -a

FAdd(a, b) == IF a = NaN \/ b = NaN THEN NaN ELSE a + b

FSub(a, b) == IF a = NaN \/ b = NaN THEN NaN ELSE a - b

\* (a * b) / c in one rounding; 0/0 and NaN operands give NaN.  (x/0 with
\* x # 0 is an infinity in the code; no input of the model divides by zero.)
FMulDiv(a, b, c) ==
    IF a = NaN \/ b = NaN \/ c = NaN \/ c = 0 THEN NaN ELSE RoundDiv(a * b, c)

\* Ordered float comparisons: false as soon as one side is NaN.
FLt(a, b) == a # NaN /\ b # NaN /\ a < b

FGt(a, b) == a # NaN /\ b # NaN /\ a > b

\* x > FLT_EPSILON and x < FLT_EPSILON.  FLT_EPSILON (1.19e-7) is positive
\* and smaller than one step of either integer scale, so a value is above it
\* iff it is at least one step and below it iff it is zero or negative.
GtFltEpsilon(a) == a # NaN /\ a >= 1

LtFltEpsilon(a) == a # NaN /\ a <= 0

\* math::max(a, b) is (a > b) ? a : b
FMax(a, b) == IF FGt(a, b) THEN a ELSE b

\* floor(sqrt(n)) for n >= 0, by bisection on lo <= sqrt(n) < hi.
RECURSIVE ISqrtBetween(_, _, _)
ISqrtBetween(n, lo, hi) ==
    IF hi - lo <= 1 THEN lo
    ELSE LET mid == (lo + hi) \div 2
         IN  IF mid * mid <= n THEN ISqrtBetween(n, mid, hi)
             ELSE ISqrtBetween(n, lo, mid)

\* The first of h, 2h, 4h, ... whose square exceeds n.
RECURSIVE ISqrtAbove(_, _)
ISqrtAbove(n, h) == IF h * h > n THEN h ELSE ISqrtAbove(n, 2 * h)

\* sqrt(n) rounded to the nearest integer.
ISqrt(n) ==
    LET f == ISqrtBetween(n, 0, ISqrtAbove(n, 1))
    IN  IF n - f * f > f THEN f + 1 ELSE f

\* sqrtf of a normalized value: NaN for a negative or NaN argument.
sqrtf(a) ==
    IF a = NaN \/ a < 0 THEN NaN ELSE ISqrt(a * NORMALIZED_MAJOR_RADIUS)

\* Vector2f::norm of a normalized vector.
Norm(v) ==
    IF v[1] = NaN \/ v[2] = NaN THEN NaN ELSE ISqrt(v[1] * v[1] + v[2] * v[2])

VSub(a, b) == <<FSub(a[1], b[1]), FSub(a[2], b[2])>>

VAdd(a, b) == <<FAdd(a[1], b[1]), FAdd(a[2], b[2])>>

\* A rotation by yaw half turns (Vector2f::transform, and the 2x2 slice of
\* Dcmf(Eulerf(0, 0, yaw))): the identity for an even count, the point
\* reflection for an odd one.
Rotate(v, yaw) == IF yaw % 2 = 0 THEN v ELSE <<FNeg(v[1]), FNeg(v[2])>>

M_PI_F == 1

----------------------------------------------------------------------------
(* FigureEightSegment *)
SEGMENT_UNDEFINED == "SEGMENT_UNDEFINED"
SEGMENT_CIRCLE_NORTH == "SEGMENT_CIRCLE_NORTH"
SEGMENT_NORTHEAST_SOUTHWEST == "SEGMENT_NORTHEAST_SOUTHWEST"
SEGMENT_CIRCLE_SOUTH == "SEGMENT_CIRCLE_SOUTH"
SEGMENT_SOUTHEAST_NORTHWEST == "SEGMENT_SOUTHEAST_NORTHWEST"

DefinedSegments ==
    {SEGMENT_CIRCLE_NORTH, SEGMENT_NORTHEAST_SOUTHWEST,
     SEGMENT_CIRCLE_SOUTH, SEGMENT_SOUTHEAST_NORTHWEST}

NORTH_CIRCLE_IS_COUNTER_CLOCKWISE == FALSE
SOUTH_CIRCLE_IS_COUNTER_CLOCKWISE == TRUE

\* FigureEightPatternParameters
Parameters(c, major, minor, orientation, ccw) ==
    [center_pos_local |-> c, loiter_radius |-> major,
     loiter_minor_radius |-> minor, loiter_orientation |-> orientation,
     loiter_direction_counter_clockwise |-> ccw]

----------------------------------------------------------------------------
(* Pattern geometry *)

calculateRotationAngle(parameters) ==
    IF parameters.loiter_direction_counter_clockwise
    THEN parameters.loiter_orientation + M_PI_F
    ELSE parameters.loiter_orientation

calculatePositionToCenterNormalizedRotated(curr_pos_local, parameters) ==
    LET pos_to_center == VSub(curr_pos_local, parameters.center_pos_local)
        pos_to_center_normalized ==
            <<FMulDiv(pos_to_center[1], NORMALIZED_MAJOR_RADIUS, parameters.loiter_radius),
              FMulDiv(pos_to_center[2], NORMALIZED_MAJOR_RADIUS, parameters.loiter_radius)>>
    IN  Rotate(pos_to_center_normalized, calculateRotationAngle(parameters))

\* Variant: the south entry point put on the east side (the sign of its
\* lateral offset flipped).
calculateFigureEightPointsSouthEntryEast(parameters) ==
    LET normalized_minor_radius ==
            FMulDiv(parameters.loiter_minor_radius, NORMALIZED_MAJOR_RADIUS,
                    parameters.loiter_radius)
        cos_transition_angle ==
            FMulDiv(parameters.loiter_minor_radius, NORMALIZED_MAJOR_RADIUS,
                    FSub(parameters.loiter_radius, parameters.loiter_minor_radius))
        sin_transition_angle ==
            sqrtf(FSub(NORMALIZED_MAJOR_RADIUS,
                       FMulDiv(cos_transition_angle, cos_transition_angle,
                               NORMALIZED_MAJOR_RADIUS)))
        along == FMulDiv(normalized_minor_radius,
                         FAdd(NORMALIZED_MAJOR_RADIUS, cos_transition_angle),
                         NORMALIZED_MAJOR_RADIUS)
        across == FMulDiv(normalized_minor_radius, sin_transition_angle,
                          NORMALIZED_MAJOR_RADIUS)
    IN  [normalized_north_circle_offset |->
            <<FSub(NORMALIZED_MAJOR_RADIUS, normalized_minor_radius), 0>>,
         normalized_north_entry_offset |->
            <<FSub(NORMALIZED_MAJOR_RADIUS, along), FNeg(across)>>,
         normalized_north_exit_offset |->
            <<FSub(NORMALIZED_MAJOR_RADIUS, along), across>>,
         normalized_south_circle_offset |->
            <<FAdd(-NORMALIZED_MAJOR_RADIUS, normalized_minor_radius), 0>>,
         normalized_south_entry_offset |->
            <<FAdd(-NORMALIZED_MAJOR_RADIUS, along), across>>,
         normalized_south_exit_offset |->
            <<FAdd(-NORMALIZED_MAJOR_RADIUS, along), across>>]

calculateFigureEightPoints(parameters) ==
    LET normalized_minor_radius ==
            FMulDiv(parameters.loiter_minor_radius, NORMALIZED_MAJOR_RADIUS,
                    parameters.loiter_radius)
        cos_transition_angle ==
            FMulDiv(parameters.loiter_minor_radius, NORMALIZED_MAJOR_RADIUS,
                    FSub(parameters.loiter_radius, parameters.loiter_minor_radius))
        sin_transition_angle ==
            sqrtf(FSub(NORMALIZED_MAJOR_RADIUS,
                       FMulDiv(cos_transition_angle, cos_transition_angle,
                               NORMALIZED_MAJOR_RADIUS)))
        along == FMulDiv(normalized_minor_radius,
                         FAdd(NORMALIZED_MAJOR_RADIUS, cos_transition_angle),
                         NORMALIZED_MAJOR_RADIUS)
        across == FMulDiv(normalized_minor_radius, sin_transition_angle,
                          NORMALIZED_MAJOR_RADIUS)
    IN  [normalized_north_circle_offset |->
            <<FSub(NORMALIZED_MAJOR_RADIUS, normalized_minor_radius), 0>>,
         normalized_north_entry_offset |->
            <<FSub(NORMALIZED_MAJOR_RADIUS, along), FNeg(across)>>,
         normalized_north_exit_offset |->
            <<FSub(NORMALIZED_MAJOR_RADIUS, along), across>>,
         normalized_south_circle_offset |->
            <<FAdd(-NORMALIZED_MAJOR_RADIUS, normalized_minor_radius), 0>>,
         normalized_south_entry_offset |->
            <<FAdd(-NORMALIZED_MAJOR_RADIUS, along), FNeg(across)>>,
         normalized_south_exit_offset |->
            <<FAdd(-NORMALIZED_MAJOR_RADIUS, along), across>>]

----------------------------------------------------------------------------
(* Segment state machine *)

\* The change test of initializePattern: a field of the stored parameters
\* differs from the given ones.
ParametersChanged(active, parameters) ==
    \/ GtFltEpsilon(fabsf(FSub(active.center_pos_local[1], parameters.center_pos_local[1])))
    \/ GtFltEpsilon(fabsf(FSub(active.center_pos_local[2], parameters.center_pos_local[2])))
    \/ GtFltEpsilon(fabsf(FSub(active.loiter_radius, parameters.loiter_radius)))
    \/ GtFltEpsilon(fabsf(FSub(active.loiter_minor_radius, parameters.loiter_minor_radius)))
    \/ GtFltEpsilon(fabsf(FSub(active.loiter_orientation, parameters.loiter_orientation)))
    \/ active.loiter_direction_counter_clockwise
         # parameters.loiter_direction_counter_clockwise

\* Variant: the two circle-centre comparisons of the classification made
\* non-strict.
ClassifySegmentNonStrict(curr_pos_local, ground_speed, parameters) ==
    LET rel_pos_to_center ==
            calculatePositionToCenterNormalizedRotated(curr_pos_local, parameters)
        ground_speed_rotated ==
            Rotate(ground_speed, calculateRotationAngle(parameters))
        pattern_points == calculateFigureEightPoints(parameters)
    IN  IF FGt(rel_pos_to_center[1], NORMALIZED_MAJOR_RADIUS)
        THEN SEGMENT_CIRCLE_NORTH
        ELSE IF FLt(rel_pos_to_center[1], -NORMALIZED_MAJOR_RADIUS)
        THEN SEGMENT_CIRCLE_SOUTH
        ELSE IF FGt(ground_speed_rotated[1], 0)
        THEN IF ~FLt(rel_pos_to_center[1], pattern_points.normalized_north_circle_offset[1])
             THEN SEGMENT_CIRCLE_NORTH
             ELSE SEGMENT_SOUTHEAST_NORTHWEST
        ELSE IF ~FGt(rel_pos_to_center[1], pattern_points.normalized_south_circle_offset[1])
             THEN SEGMENT_CIRCLE_SOUTH
             ELSE SEGMENT_NORTHEAST_SOUTHWEST

\* Variant: a southbound vehicle short of the south circle classified into
\* line SE-NW, the line of the northbound case.
ClassifySegmentSouthboundAsNorthbound(curr_pos_local, ground_speed, parameters) ==
    LET rel_pos_to_center ==
            calculatePositionToCenterNormalizedRotated(curr_pos_local, parameters)
        ground_speed_rotated ==
            Rotate(ground_speed, calculateRotationAngle(parameters))
        pattern_points == calculateFigureEightPoints(parameters)
    IN  IF FGt(rel_pos_to_center[1], NORMALIZED_MAJOR_RADIUS)
        THEN SEGMENT_CIRCLE_NORTH
        ELSE IF FLt(rel_pos_to_center[1], -NORMALIZED_MAJOR_RADIUS)
        THEN SEGMENT_CIRCLE_SOUTH
        ELSE IF FGt(ground_speed_rotated[1], 0)
        THEN IF FGt(rel_pos_to_center[1], pattern_points.normalized_north_circle_offset[1])
             THEN SEGMENT_CIRCLE_NORTH
             ELSE SEGMENT_SOUTHEAST_NORTHWEST
        ELSE IF FLt(rel_pos_to_center[1], pattern_points.normalized_south_circle_offset[1])
             THEN SEGMENT_CIRCLE_SOUTH
             ELSE SEGMENT_SOUTHEAST_NORTHWEST

\* Variant: the two lines of the classification interchanged.
ClassifySegmentLinesSwapped(curr_pos_local, ground_speed, parameters) ==
    LET rel_pos_to_center ==
            calculatePositionToCenterNormalizedRotated(curr_pos_local, parameters)
        ground_speed_rotated ==
            Rotate(ground_speed, calculateRotationAngle(parameters))
        pattern_points == calculateFigureEightPoints(parameters)
    IN  IF FGt(rel_pos_to_center[1], NORMALIZED_MAJOR_RADIUS)
        THEN SEGMENT_CIRCLE_NORTH
        ELSE IF FLt(rel_pos_to_center[1], -NORMALIZED_MAJOR_RADIUS)
        THEN SEGMENT_CIRCLE_SOUTH
        ELSE IF FGt(ground_speed_rotated[1], 0)
        THEN IF FGt(rel_pos_to_center[1], pattern_points.normalized_north_circle_offset[1])
             THEN SEGMENT_CIRCLE_NORTH
             ELSE SEGMENT_NORTHEAST_SOUTHWEST
        ELSE IF FLt(rel_pos_to_center[1], pattern_points.normalized_south_circle_offset[1])
             THEN SEGMENT_CIRCLE_SOUTH
             ELSE SEGMENT_SOUTHEAST_NORTHWEST

\* The classification of initializePattern: the segment chosen from the
\* position and the ground velocity, both in the pattern's frame.
ClassifySegment(curr_pos_local, ground_speed, parameters) ==
    LET rel_pos_to_center ==
            calculatePositionToCenterNormalizedRotated(curr_pos_local, parameters)
        ground_speed_rotated ==
            Rotate(ground_speed, calculateRotationAngle(parameters))
        pattern_points == calculateFigureEightPoints(parameters)
    IN  IF FGt(rel_pos_to_center[1], NORMALIZED_MAJOR_RADIUS)
        THEN SEGMENT_CIRCLE_NORTH
        ELSE IF FLt(rel_pos_to_center[1], -NORMALIZED_MAJOR_RADIUS)
        THEN SEGMENT_CIRCLE_SOUTH
        ELSE IF FGt(ground_speed_rotated[1], 0)
        THEN IF FGt(rel_pos_to_center[1], pattern_points.normalized_north_circle_offset[1])
             THEN SEGMENT_CIRCLE_NORTH
             ELSE SEGMENT_SOUTHEAST_NORTHWEST
        ELSE IF FLt(rel_pos_to_center[1], pattern_points.normalized_south_circle_offset[1])
             THEN SEGMENT_CIRCLE_SOUTH
             ELSE SEGMENT_NORTHEAST_SOUTHWEST

\* Variant: every initializePattern call classifies.
MustInitializeAlways(segment, active, parameters) == TRUE

\* Does this initializePattern call classify?
MustInitialize(segment, active, parameters) ==
    segment = SEGMENT_UNDEFINED \/ ParametersChanged(active, parameters)

\* The normalized switch distance of updateSegment.
SwitchDistanceNormalized(switch_distance, parameters) ==
    FMulDiv(switch_distance, NORMALIZED_MAJOR_RADIUS, parameters.loiter_radius)

\* Variant: the north circle left by the failsafe rule only, the proximity
\* test of the exit point dropped.
UpdateCircleNorthFailsafeOnly(passed, rel, sw, pp) ==
    LET passed_now ==
            passed \/ FGt(rel[1], pp.normalized_north_circle_offset[1])
    IN  [segment |->
            IF passed_now /\
               (FLt(rel[1], pp.normalized_north_exit_offset[1]) /\ GtFltEpsilon(rel[2]))
            THEN SEGMENT_NORTHEAST_SOUTHWEST
            ELSE SEGMENT_CIRCLE_NORTH,
         passed |-> passed_now]

\* Variant: the north circle left without regard to the passed-center flag.
UpdateCircleNorthNoFlag(passed, rel, sw, pp) ==
    LET passed_now ==
            passed \/ FGt(rel[1], pp.normalized_north_circle_offset[1])
        vector_to_exit_normalized == VSub(pp.normalized_north_exit_offset, rel)
    IN  [segment |->
            IF \/ FLt(Norm(vector_to_exit_normalized), sw)
               \/ (FLt(rel[1], pp.normalized_north_exit_offset[1]) /\ GtFltEpsilon(rel[2]))
            THEN SEGMENT_NORTHEAST_SOUTHWEST
            ELSE SEGMENT_CIRCLE_NORTH,
         passed |-> passed_now]

\* case SEGMENT_CIRCLE_NORTH of updateSegment
UpdateCircleNorth(passed, rel, sw, pp) ==
    LET passed_now ==
            passed \/ FGt(rel[1], pp.normalized_north_circle_offset[1])
        vector_to_exit_normalized == VSub(pp.normalized_north_exit_offset, rel)
    IN  [segment |->
            IF passed_now /\
               (\/ FLt(Norm(vector_to_exit_normalized), sw)
                \/ (FLt(rel[1], pp.normalized_north_exit_offset[1]) /\ GtFltEpsilon(rel[2])))
            THEN SEGMENT_NORTHEAST_SOUTHWEST
            ELSE SEGMENT_CIRCLE_NORTH,
         passed |-> passed_now]

\* Variants of the line NE-SW: one that leaves the passed-center flag as it
\* is, and one without the overshoot test.
UpdateNortheastSouthwestKeepsFlag(passed, rel, sw, pp) ==
    LET vector_to_exit_normalized == VSub(pp.normalized_south_entry_offset, rel)
    IN  [segment |->
            IF \/ FLt(Norm(vector_to_exit_normalized), sw)
               \/ (FLt(rel[1], pp.normalized_south_entry_offset[1]) /\ LtFltEpsilon(rel[2]))
               \/ FLt(rel[1], -NORMALIZED_MAJOR_RADIUS)
            THEN SEGMENT_CIRCLE_SOUTH
            ELSE SEGMENT_NORTHEAST_SOUTHWEST,
         passed |-> passed]

UpdateNortheastSouthwestNoOvershoot(passed, rel, sw, pp) ==
    LET vector_to_exit_normalized == VSub(pp.normalized_south_entry_offset, rel)
    IN  [segment |->
            IF \/ FLt(Norm(vector_to_exit_normalized), sw)
               \/ (FLt(rel[1], pp.normalized_south_entry_offset[1]) /\ LtFltEpsilon(rel[2]))
            THEN SEGMENT_CIRCLE_SOUTH
            ELSE SEGMENT_NORTHEAST_SOUTHWEST,
         passed |-> FALSE]

\* case SEGMENT_NORTHEAST_SOUTHWEST of updateSegment
UpdateNortheastSouthwest(passed, rel, sw, pp) ==
    LET vector_to_exit_normalized == VSub(pp.normalized_south_entry_offset, rel)
    IN  [segment |->
            IF \/ FLt(Norm(vector_to_exit_normalized), sw)
               \/ (FLt(rel[1], pp.normalized_south_entry_offset[1]) /\ LtFltEpsilon(rel[2]))
               \/ FLt(rel[1], -NORMALIZED_MAJOR_RADIUS)
            THEN SEGMENT_CIRCLE_SOUTH
            ELSE SEGMENT_NORTHEAST_SOUTHWEST,
         passed |-> FALSE]

\* Variant: the south circle left without regard to the passed-center flag.
UpdateCircleSouthNoFlag(passed, rel, sw, pp) ==
    LET passed_now ==
            passed \/ FLt(rel[1], pp.normalized_south_circle_offset[1])
        vector_to_exit_normalized == VSub(pp.normalized_south_exit_offset, rel)
    IN  [segment |->
            IF \/ FLt(Norm(vector_to_exit_normalized), sw)
               \/ (FGt(rel[1], pp.normalized_south_exit_offset[1]) /\ GtFltEpsilon(rel[2]))
            THEN SEGMENT_SOUTHEAST_NORTHWEST
            ELSE SEGMENT_CIRCLE_SOUTH,
         passed |-> passed_now]

\* Variant: the south circle's failsafe rule on the west side (negative
\* lateral offset) instead of the east side.
UpdateCircleSouthWestFailsafe(passed, rel, sw, pp) ==
    LET passed_now ==
            passed \/ FLt(rel[1], pp.normalized_south_circle_offset[1])
        vector_to_exit_normalized == VSub(pp.normalized_south_exit_offset, rel)
    IN  [segment |->
            IF passed_now /\
               (\/ FLt(Norm(vector_to_exit_normalized), sw)
                \/ (FGt(rel[1], pp.normalized_south_exit_offset[1]) /\ LtFltEpsilon(rel[2])))
            THEN SEGMENT_SOUTHEAST_NORTHWEST
            ELSE SEGMENT_CIRCLE_SOUTH,
         passed |-> passed_now]

\* case SEGMENT_CIRCLE_SOUTH of updateSegment
UpdateCircleSouth(passed, rel, sw, pp) ==
    LET passed_now ==
            passed \/ FLt(rel[1], pp.normalized_south_circle_offset[1])
        vector_to_exit_normalized == VSub(pp.normalized_south_exit_offset, rel)
    IN  [segment |->
            IF passed_now /\
               (\/ FLt(Norm(vector_to_exit_normalized), sw)
                \/ (FGt(rel[1], pp.normalized_south_exit_offset[1]) /\ GtFltEpsilon(rel[2])))
            THEN SEGMENT_SOUTHEAST_NORTHWEST
            ELSE SEGMENT_CIRCLE_SOUTH,
         passed |-> passed_now]

\* Variant: the line SE-NW left by proximity or overshoot only, its failsafe
\* rule (beyond the north entry point on the west side) dropped.
UpdateSoutheastNorthwestNoFailsafe(passed, rel, sw, pp) ==
    LET vector_to_exit_normalized == VSub(pp.normalized_north_entry_offset, rel)
    IN  [segment |->
            IF \/ FLt(Norm(vector_to_exit_normalized), sw)
               \/ FGt(rel[1], NORMALIZED_MAJOR_RADIUS)
            THEN SEGMENT_CIRCLE_NORTH
            ELSE SEGMENT_SOUTHEAST_NORTHWEST,
         passed |-> FALSE]

\* case SEGMENT_SOUTHEAST_NORTHWEST of updateSegment
UpdateSoutheastNorthwest(passed, rel, sw, pp) ==
    LET vector_to_exit_normalized == VSub(pp.normalized_north_entry_offset, rel)
    IN  [segment |->
            IF \/ FLt(Norm(vector_to_exit_normalized), sw)
               \/ (FGt(rel[1], pp.normalized_north_entry_offset[1]) /\ LtFltEpsilon(rel[2]))
               \/ FGt(rel[1], NORMALIZED_MAJOR_RADIUS)
            THEN SEGMENT_CIRCLE_NORTH
            ELSE SEGMENT_SOUTHEAST_NORTHWEST,
         passed |-> FALSE]

\* Variant: the north-circle case without its break, so that a tick that
\* leaves the north circle runs the case of the line as well.
updateSegmentFallThrough(segment, passed, curr_pos_local, parameters, switch_distance, pattern_points) ==
    LET rel == calculatePositionToCenterNormalizedRotated(curr_pos_local, parameters)
        sw == SwitchDistanceNormalized(switch_distance, parameters)
        north == UpdateCircleNorth(passed, rel, sw, pattern_points)
    IN  CASE segment = SEGMENT_CIRCLE_NORTH ->
                IF north.segment = SEGMENT_NORTHEAST_SOUTHWEST
                THEN UpdateNortheastSouthwest(north.passed, rel, sw, pattern_points)
                ELSE north
          [] segment = SEGMENT_NORTHEAST_SOUTHWEST ->
                UpdateNortheastSouthwest(passed, rel, sw, pattern_points)
          [] segment = SEGMENT_CIRCLE_SOUTH ->
                UpdateCircleSouth(passed, rel, sw, pattern_points)
          [] segment = SEGMENT_SOUTHEAST_NORTHWEST ->
                UpdateSoutheastNorthwest(passed, rel, sw, pattern_points)
          [] OTHER -> [segment |-> segment, passed |-> passed]

\* Variant: an undefined segment taken for circle-north.
updateSegmentUndefinedAsCircleNorth(segment, passed, curr_pos_local, parameters, switch_distance, pattern_points) ==
    LET rel == calculatePositionToCenterNormalizedRotated(curr_pos_local, parameters)
        sw == SwitchDistanceNormalized(switch_distance, parameters)
    IN  CASE segment = SEGMENT_NORTHEAST_SOUTHWEST ->
                UpdateNortheastSouthwest(passed, rel, sw, pattern_points)
          [] segment = SEGMENT_CIRCLE_SOUTH ->
                UpdateCircleSouth(passed, rel, sw, pattern_points)
          [] segment = SEGMENT_SOUTHEAST_NORTHWEST ->
                UpdateSoutheastNorthwest(passed, rel, sw, pattern_points)
          [] OTHER -> UpdateCircleNorth(passed, rel, sw, pattern_points)

\* updateSegment: the segment and the passed-center flag after the update.
updateSegment(segment, passed, curr_pos_local, parameters, switch_distance, pattern_points) ==
    LET rel == calculatePositionToCenterNormalizedRotated(curr_pos_local, parameters)
        sw == SwitchDistanceNormalized(switch_distance, parameters)
    IN  CASE segment = SEGMENT_CIRCLE_NORTH ->
                UpdateCircleNorth(passed, rel, sw, pattern_points)
          [] segment = SEGMENT_NORTHEAST_SOUTHWEST ->
                UpdateNortheastSouthwest(passed, rel, sw, pattern_points)
          [] segment = SEGMENT_CIRCLE_SOUTH ->
                UpdateCircleSouth(passed, rel, sw, pattern_points)
          [] segment = SEGMENT_SOUTHEAST_NORTHWEST ->
                UpdateSoutheastNorthwest(passed, rel, sw, pattern_points)
          [] OTHER -> [segment |-> segment, passed |-> passed]

----------------------------------------------------------------------------
(* Control dispatch *)

\* NAV_LOITER_RAD as configured (negative: counter-clockwise) and FW_AIRSPD_MAX.
param_nav_loiter_rad == -16
param_fw_airspd_max == 20

\* Variant: the sanitizing without the floor on the major radius.
SanitizeParametersNoFloor(parameters) ==
    LET minor == IF ~PX4_ISFINITE(parameters.loiter_minor_radius)
                 THEN fabsf(param_nav_loiter_rad)
                 ELSE parameters.loiter_minor_radius
        major_finite == PX4_ISFINITE(parameters.loiter_radius)
        major == IF major_finite THEN parameters.loiter_radius
                 ELSE FMulDiv(5, minor, 2)
        ccw == IF major_finite THEN parameters.loiter_direction_counter_clockwise
               ELSE param_nav_loiter_rad < 0
    IN  [parameters EXCEPT !.loiter_minor_radius = minor,
                           !.loiter_radius = major,
                           !.loiter_direction_counter_clockwise = ccw]

\* The input sanitizing of updateSetpoint.
SanitizeParameters(parameters) ==
    LET minor == IF ~PX4_ISFINITE(parameters.loiter_minor_radius)
                 THEN fabsf(param_nav_loiter_rad)
                 ELSE parameters.loiter_minor_radius
        major_finite == PX4_ISFINITE(parameters.loiter_radius)
        \* DEFAULT_MAJOR_TO_MINOR_AXIS_RATIO{2.5f} * minor
        major == IF major_finite THEN parameters.loiter_radius
                 ELSE FMulDiv(5, minor, 2)
        ccw == IF major_finite THEN parameters.loiter_direction_counter_clockwise
               ELSE param_nav_loiter_rad < 0
        \* MINIMAL_FEASIBLE_MAJOR_TO_MINOR_AXIS_RATIO{2.0f} * minor
        floor == FMulDiv(2, minor, 1)
    IN  [parameters EXCEPT !.loiter_minor_radius = minor,
                           !.loiter_radius = FMax(major, floor),
                           !.loiter_direction_counter_clockwise = ccw]

\* A normalized offset of the pattern as a position of the local frame.
OffsetToLocal(normalized_offset, parameters) ==
    LET offset == <<FMulDiv(normalized_offset[1], parameters.loiter_radius,
                            NORMALIZED_MAJOR_RADIUS),
                    FMulDiv(normalized_offset[2], parameters.loiter_radius,
                            NORMALIZED_MAJOR_RADIUS)>>
    IN  VAdd(parameters.center_pos_local,
             Rotate(offset, calculateRotationAngle(parameters)))

\* No navigate call was made.
NoCall == [op |-> "none"]

\* applyCircle: the navigate-loiter call handed to the delegate.
applyCircle(loiter_direction_counter_clockwise, normalized_circle_offset, parameters) ==
    [op |-> "navigateLoiter",
     center |-> OffsetToLocal(normalized_circle_offset, parameters),
     radius |-> parameters.loiter_minor_radius,
     counter_clockwise |-> loiter_direction_counter_clockwise]

\* applyLine: the navigate-waypoints call handed to the delegate.
applyLine(normalized_line_start_offset, normalized_line_end_offset, parameters) ==
    [op |-> "navigateWaypoints",
     start |-> OffsetToLocal(normalized_line_start_offset, parameters),
     end |-> OffsetToLocal(normalized_line_end_offset, parameters)]

\* Variant: the south circle's case missing from the dispatch.
applyControlNoSouth(segment, parameters, pattern_points) ==
    CASE segment = SEGMENT_CIRCLE_NORTH ->
            applyCircle(NORTH_CIRCLE_IS_COUNTER_CLOCKWISE,
                        pattern_points.normalized_north_circle_offset, parameters)
      [] segment = SEGMENT_NORTHEAST_SOUTHWEST ->
            applyLine(pattern_points.normalized_north_exit_offset,
                      pattern_points.normalized_south_entry_offset, parameters)
      [] segment = SEGMENT_SOUTHEAST_NORTHWEST ->
            applyLine(pattern_points.normalized_south_exit_offset,
                      pattern_points.normalized_north_entry_offset, parameters)
      [] OTHER -> NoCall

\* Variant: the start and end points of line NE-SW interchanged.
applyControlLineReversed(segment, parameters, pattern_points) ==
    CASE segment = SEGMENT_CIRCLE_NORTH ->
            applyCircle(NORTH_CIRCLE_IS_COUNTER_CLOCKWISE,
                        pattern_points.normalized_north_circle_offset, parameters)
      [] segment = SEGMENT_NORTHEAST_SOUTHWEST ->
            applyLine(pattern_points.normalized_south_entry_offset,
                      pattern_points.normalized_north_exit_offset, parameters)
      [] segment = SEGMENT_CIRCLE_SOUTH ->
            applyCircle(SOUTH_CIRCLE_IS_COUNTER_CLOCKWISE,
                        pattern_points.normalized_south_circle_offset, parameters)
      [] segment = SEGMENT_SOUTHEAST_NORTHWEST ->
            applyLine(pattern_points.normalized_south_exit_offset,
                      pattern_points.normalized_north_entry_offset, parameters)
      [] OTHER -> NoCall

\* applyControl: the path element of the segment, NoCall for an undefined one.
applyControl(segment, parameters, pattern_points) ==
    CASE segment = SEGMENT_CIRCLE_NORTH ->
            applyCircle(NORTH_CIRCLE_IS_COUNTER_CLOCKWISE,
                        pattern_points.normalized_north_circle_offset, parameters)
      [] segment = SEGMENT_NORTHEAST_SOUTHWEST ->
            applyLine(pattern_points.normalized_north_exit_offset,
                      pattern_points.normalized_south_entry_offset, parameters)
      [] segment = SEGMENT_CIRCLE_SOUTH ->
            applyCircle(SOUTH_CIRCLE_IS_COUNTER_CLOCKWISE,
                        pattern_points.normalized_south_circle_offset, parameters)
      [] segment = SEGMENT_SOUTHEAST_NORTHWEST ->
            applyLine(pattern_points.normalized_south_exit_offset,
                      pattern_points.normalized_north_entry_offset, parameters)
      [] OTHER -> NoCall

----------------------------------------------------------------------------
(* The operations as functions of the component's state and their arguments *)

\* Variant: a classifying call stores the parameters as updateSetpoint
\* sanitizes them.
initializePatternStoresSanitized(segment, passed, active, curr_pos_local, ground_speed, parameters) ==
    IF MustInitialize(segment, active, parameters)
    THEN [segment |-> ClassifySegment(curr_pos_local, ground_speed, parameters),
          passed |-> FALSE,
          active |-> SanitizeParameters(parameters),
          classified |-> TRUE]
    ELSE [segment |-> segment, passed |-> passed, active |-> active,
          classified |-> FALSE]

\* initializePattern: the state it leaves, and whether it classified.
initializePattern(segment, passed, active, curr_pos_local, ground_speed, parameters) ==
    IF MustInitialize(segment, active, parameters)
    THEN [segment |-> ClassifySegment(curr_pos_local, ground_speed, parameters),
          passed |-> FALSE,
          active |-> parameters,
          classified |-> TRUE]
    ELSE [segment |-> segment, passed |-> passed, active |-> active,
          classified |-> FALSE]

\* Variants: a reset that keeps the segment, and one that keeps the flag.
resetPatternKeepsSegment(segment, passed) ==
    [segment |-> segment, passed |-> FALSE]

resetPatternKeepsFlag(segment, passed) ==
    [segment |-> SEGMENT_UNDEFINED, passed |-> passed]

\* resetPattern
resetPattern(segment, passed) ==
    [segment |-> SEGMENT_UNDEFINED, passed |-> FALSE]

\* Variant: the dispatch made on the segment as it was before the update.
updateSetpointDispatchFirst(segment, passed, curr_pos_local, parameters, switch_distance) ==
    LET valid_parameters == SanitizeParameters(parameters)
        pattern_points == calculateFigureEightPoints(valid_parameters)
        updated == updateSegment(segment, passed, curr_pos_local, valid_parameters,
                                 switch_distance, pattern_points)
    IN  [parameters |-> parameters,
         valid_parameters |-> valid_parameters,
         pattern_points |-> pattern_points,
         segment |-> updated.segment,
         passed |-> updated.passed,
         element |-> applyControl(segment, valid_parameters, pattern_points)]

\* updateSetpoint up to the delegate call: sanitize, geometry, segment
\* update, then dispatch on the segment as updateSegment left it.
updateSetpoint(segment, passed, curr_pos_local, parameters, switch_distance) ==
    LET valid_parameters == SanitizeParameters(parameters)
        pattern_points == calculateFigureEightPoints(valid_parameters)
        updated == updateSegment(segment, passed, curr_pos_local, valid_parameters,
                                 switch_distance, pattern_points)
    IN  [parameters |-> parameters,
         valid_parameters |-> valid_parameters,
         pattern_points |-> pattern_points,
         segment |-> updated.segment,
         passed |-> updated.passed,
         element |-> applyControl(updated.segment, valid_parameters, pattern_points)]

\* The true-airspeed settings handed to NPFG before its navigate call
\* (eas2tas in quarters: 4 is 1.0).
NpfgAirspeed(airspeed, eas2tas) == RoundDiv(airspeed * eas2tas, 4)

\* The setpoints read back after the navigate call: NPFG's roll and its
\* airspeed reference converted to indicated airspeed, or L1's roll and the
\* target airspeed unchanged.
ReadBackRoll(use_npfg, out) == out.roll

ReadBackAirspeed(use_npfg, out, target_airspeed, eas2tas) ==
    IF use_npfg THEN RoundDiv(out.airspeed_ref * 4, eas2tas) ELSE target_airspeed

\* Largest roll setpoint a delegate returns (in steps of its resolution).
MaxRoll == 1

\* What a navigate call of the selected delegate leaves to read back: any
\* roll setpoint, and for NPFG the airspeed reference (true airspeed).
DelegateOutputs(use_npfg) ==
    IF use_npfg
    THEN {[roll |-> r, airspeed_ref |-> 25] : r \in 0..MaxRoll}
    ELSE {[roll |-> r, airspeed_ref |-> 0] : r \in 0..MaxRoll}

----------------------------------------------------------------------------
(* State *)

VARIABLES
    current_segment,                          \* _current_segment
    pos_passed_circle_center_along_major_axis,\* the passed-center flag
    active_parameters,                        \* _active_parameters
    roll_setpoint,                            \* _roll_setpoint
    indicated_airspeed_setpoint,              \* _indicated_airspeed_setpoint
    pre,     \* segment and flag as they were when the last operation began
    last,    \* the last operation: what it was and what it did
    args,    \* the fixed arguments of the single-call and stationary runs
    left     \* stationary runs: the segments a tick has left so far

vars == <<current_segment, pos_passed_circle_center_along_major_axis,
          active_parameters, roll_setpoint, indicated_airspeed_setpoint,
          pre, last, args, left>>

\* InitializePattern(...): one call of initializePattern.
InitializePattern(curr_pos_local, ground_speed, parameters) ==
    \E r \in {initializePattern(current_segment,
                                 pos_passed_circle_center_along_major_axis,
                                 active_parameters, curr_pos_local, ground_speed,
                                 parameters)} :
        /\ current_segment' = r.segment
        /\ pos_passed_circle_center_along_major_axis' = r.passed
        /\ active_parameters' = r.active
        /\ pre' = [segment |-> current_segment,
                   passed |-> pos_passed_circle_center_along_major_axis]
        /\ last' = [op |-> "initializePattern", classified |-> r.classified,
                    parameters |-> parameters,
                    changed |-> ParametersChanged(active_parameters, parameters)]
        /\ UNCHANGED <<roll_setpoint, indicated_airspeed_setpoint>>

\* ResetPattern: one call of resetPattern.
ResetPattern ==
    LET r == resetPattern(current_segment, pos_passed_circle_center_along_major_axis)
    IN  /\ current_segment' = r.segment
        /\ pos_passed_circle_center_along_major_axis' = r.passed
        /\ pre' = [segment |-> current_segment,
                   passed |-> pos_passed_circle_center_along_major_axis]
        /\ last' = [op |-> "resetPattern"]
        /\ UNCHANGED <<active_parameters, roll_setpoint, indicated_airspeed_setpoint>>

\* The effect of one updateSetpoint call whose computation up to the
\* delegate call is r: the state it leaves and the setpoints read back from
\* the delegate's navigate call, out.
UpdateSetpointEffect(r, target_airspeed, use_npfg, eas2tas) ==
      \E out \in DelegateOutputs(use_npfg) :
      LET called == r.element # NoCall
      IN
        /\ current_segment' = r.segment
        /\ pos_passed_circle_center_along_major_axis' = r.passed
        /\ roll_setpoint' =
              IF called THEN ReadBackRoll(use_npfg, out) ELSE roll_setpoint
        /\ indicated_airspeed_setpoint' =
              IF called THEN ReadBackAirspeed(use_npfg, out, target_airspeed, eas2tas)
              ELSE indicated_airspeed_setpoint
        /\ pre' = [segment |-> current_segment,
                   passed |-> pos_passed_circle_center_along_major_axis]
        /\ last' = [op |-> "updateSetpoint",
                    parameters |-> r.parameters,
                    valid_parameters |-> r.valid_parameters,
                    pattern_points |-> r.pattern_points,
                    element |-> r.element,
                    use_npfg |-> use_npfg,
                    target_airspeed |-> target_airspeed,
                    eas2tas |-> eas2tas,
                    out |-> IF called THEN out ELSE [roll |-> 0, airspeed_ref |-> 0],
                    airspeed_nom |->
                        IF called /\ use_npfg
                        THEN NpfgAirspeed(target_airspeed, eas2tas) ELSE 0,
                    airspeed_max |->
                        IF called /\ use_npfg
                        THEN NpfgAirspeed(param_fw_airspd_max, eas2tas) ELSE 0]
        /\ UNCHANGED active_parameters

\* UpdateSetpoint(...): one call of updateSetpoint.  switch_distance is what
\* the selected delegate's switch-distance query returns; eas2tas is the
\* caller's factor.
UpdateSetpoint(curr_pos_local, parameters, target_airspeed, use_npfg, switch_distance, eas2tas) ==
    \E r \in {updateSetpoint(current_segment,
                              pos_passed_circle_center_along_major_axis,
                              curr_pos_local, parameters, switch_distance)} :
        UpdateSetpointEffect(r, target_airspeed, use_npfg, eas2tas)

----------------------------------------------------------------------------
(* Inputs *)

\* Number of grid columns on each side of the pattern centre.
GridMax == 11

\* The reference pattern: centre (0, 0), major radius 40 m, minor radius
\* 15 m (cos of the transition angle 3/5), orientation 0, clockwise.  Its
\* circle centres are (+-25, 0) and its entry and exit points (+-16, +-12).
ReferenceParameters == Parameters(<<0, 0>>, 40, 15, 0, FALSE)

\* The reference pattern flown the other way round, a pattern whose
\* major radius is below twice the minor one, and one with no radii given.
CounterClockwiseParameters == Parameters(<<0, 0>>, 40, 15, 0, TRUE)
InfeasibleParameters == Parameters(<<0, 0>>, 30, 20, 0, FALSE)
UnsetParameters == Parameters(<<0, 0>>, NaN, NaN, 0, FALSE)

ParameterSet ==
    {ReferenceParameters, CounterClockwiseParameters, InfeasibleParameters,
     UnsetParameters}

\* Positions on and around the reference pattern: entry and exit points,
\* points of both circles beyond their centres, the pattern centre, the
\* north circle's centre and points beyond the major radius.
TrackPoints ==
    {<<16, -12>>, <<44, 0>>, <<32, 12>>, <<16, 12>>, <<0, 0>>,
     <<-16, -12>>, <<-32, -12>>, <<-44, 0>>, <<-16, 12>>, <<25, 0>>}

\* Ground velocities: northbound, southbound, eastbound.
GroundSpeeds == {<<15, 0>>, <<-15, 0>>, <<0, 15>>}

\* What a delegate's switch-distance query returns (m).
SwitchDistances == {4, 100}

TargetAirspeeds == {16}

\* eas2tas in quarters.
Eas2Tas == {5}

NoArgs == [kind |-> "none"]

\* A grid over the pattern and a margin around it (4 m by 12 m cells), and
\* the circle centres of the reference pattern.
GridPoints ==
    {<<4 * i, 12 * j>> : i \in -GridMax..GridMax, j \in -1..1}
        \cup {<<25, 0>>, <<-25, 0>>}

\* Feasible patterns: the reference one, flown either way round, moved and
\* turned half round, and one whose major radius is exactly twice the minor.
TangentParameters == Parameters(<<0, 0>>, 40, 20, 0, FALSE)
MovedParameters == Parameters(<<8, 12>>, 40, 15, 1, FALSE)

ValidParameterSet ==
    {ReferenceParameters, CounterClockwiseParameters, TangentParameters,
     MovedParameters}

AllParameterSet == ValidParameterSet \cup ParameterSet

\* The segment and flag values the component can hold between two calls.
SegmentStates ==
    {[segment |-> SEGMENT_UNDEFINED, passed |-> FALSE]}
        \cup [segment : DefinedSegments, passed : BOOLEAN]

----------------------------------------------------------------------------
(* Spec: any sequence of calls of the three operations *)

Constructed ==
    /\ current_segment = SEGMENT_UNDEFINED
    /\ pos_passed_circle_center_along_major_axis = FALSE
    /\ roll_setpoint = 0
    /\ indicated_airspeed_setpoint = 0
    /\ pre = [segment |-> SEGMENT_UNDEFINED, passed |-> FALSE]
    /\ last = [op |-> "constructor"]

Init ==
    /\ Constructed
    /\ active_parameters \in ParameterSet
    /\ args = NoArgs
    /\ left = {}

CallInitializePattern ==
    \E p \in TrackPoints, g \in GroundSpeeds, q \in ParameterSet :
        InitializePattern(p, g, q) /\ UNCHANGED <<args, left>>

CallResetPattern == ResetPattern /\ UNCHANGED <<args, left>>

\* updateSetpoint tabulated over the states and the inputs of Spec: the set
\* of its (state, position, parameters, switch distance, result) tuples.
updateSetpointOfSpec ==
    {<<st, p, q, d, updateSetpoint(st.segment, st.passed, p, q, d)>> :
        st \in SegmentStates, p \in TrackPoints, q \in ParameterSet,
        d \in SwitchDistances}

CallUpdateSetpoint ==
    \E u \in updateSetpointOfSpec, t \in TargetAirspeeds, n \in BOOLEAN,
       e \in Eas2Tas :
        /\ u[1] = [segment |-> current_segment,
                   passed |-> pos_passed_circle_center_along_major_axis]
        /\ UpdateSetpointEffect(u[5], t, n, e)
        /\ UNCHANGED <<args, left>>

Next == CallInitializePattern \/ CallResetPattern \/ CallUpdateSetpoint

Spec == Init /\ [][Next]_vars

----------------------------------------------------------------------------
(* SpecCall: one call of one operation, from any state the component can   *)
(* hold between two calls, with arguments fixed at the start               *)

InitCall ==
    /\ \E st \in SegmentStates :
          /\ current_segment = st.segment
          /\ pos_passed_circle_center_along_major_axis = st.passed
          /\ pre = st
          \* the flag is only ever set by a tick, which also sets the setpoints
          /\ indicated_airspeed_setpoint = IF st.passed THEN 16 ELSE 0
    /\ roll_setpoint = 0
    /\ active_parameters \in AllParameterSet
    /\ last = [op |-> "none"]
    /\ left = {}
    /\ \/ args \in [kind : {"initializePattern"}, curr_pos_local : GridPoints,
                    ground_speed : GroundSpeeds, parameters : AllParameterSet]
       \/ /\ args \in [kind : {"updateSetpoint"}, curr_pos_local : GridPoints,
                       parameters : AllParameterSet,
                       switch_distance : SwitchDistances, use_npfg : BOOLEAN]
          /\ active_parameters = ReferenceParameters
       \/ /\ args = [kind |-> "resetPattern"]
          /\ active_parameters = ReferenceParameters

ApplyInitializePattern ==
    /\ last.op = "none"
    /\ args.kind = "initializePattern"
    /\ InitializePattern(args.curr_pos_local, args.ground_speed, args.parameters)
    /\ UNCHANGED <<args, left>>

ApplyUpdateSetpoint ==
    /\ last.op = "none"
    /\ args.kind = "updateSetpoint"
    /\ \E t \in TargetAirspeeds, e \in Eas2Tas :
          UpdateSetpoint(args.curr_pos_local, args.parameters, t, args.use_npfg,
                         args.switch_distance, e)
    /\ UNCHANGED <<args, left>>

ApplyResetPattern ==
    /\ last.op = "none"
    /\ args.kind = "resetPattern"
    /\ ResetPattern
    /\ UNCHANGED <<args, left>>

NextCall == ApplyInitializePattern \/ ApplyUpdateSetpoint \/ ApplyResetPattern

SpecCall == InitCall /\ [][NextCall]_vars

----------------------------------------------------------------------------
(* SpecStationary: a vehicle that does not move, a pattern that does not   *)
(* change and a delegate whose switch distance stays the same              *)

InitStationary ==
    /\ Constructed
    /\ active_parameters = ReferenceParameters
    /\ left = {}
    /\ args \in [kind : {"stationary"}, curr_pos_local : GridPoints,
                 ground_speed : GroundSpeeds, parameters : ValidParameterSet,
                 switch_distance : SwitchDistances, use_npfg : BOOLEAN]

StationaryInitializePattern ==
    /\ InitializePattern(args.curr_pos_local, args.ground_speed, args.parameters)
    /\ UNCHANGED <<args, left>>

StationaryUpdateSetpoint ==
    /\ \E t \in TargetAirspeeds, e \in Eas2Tas :
          UpdateSetpoint(args.curr_pos_local, args.parameters, t, args.use_npfg,
                         args.switch_distance, e)
    /\ left' = IF current_segment' # current_segment
               THEN left \cup {current_segment} ELSE left
    /\ UNCHANGED args

NextStationary == StationaryInitializePattern \/ StationaryUpdateSetpoint

SpecStationary == InitStationary /\ [][NextStationary]_vars

----------------------------------------------------------------------------
(* SpecFlight: a flight.  The three operations are called as in Spec and   *)
(* the scheduler never stops ticking.  args keeps the position and switch  *)
(* distance of the last tick and, for the circle segment in progress,      *)
(* whether a tick since its entry found the vehicle beyond its centre.     *)
(* The delegate is the L1 controller throughout.                           *)

FlightParameterSet == {ReferenceParameters, CounterClockwiseParameters}

\* Positions of a flight: the entry and exit points of the reference
\* pattern, its centre, the north circle's centre and a point beyond each
\* end of the major axis.
FlightPoints ==
    {<<16, -12>>, <<16, 12>>, <<-16, -12>>, <<-16, 12>>, <<0, 0>>,
     <<25, 0>>, <<44, 0>>, <<-44, 0>>}

\* Relative x is strictly beyond the centre of the circle: above the north
\* circle's offset in circle-north, below the south circle's in circle-south.
BeyondCentre(segment, rel, pp) ==
    CASE segment = SEGMENT_CIRCLE_NORTH ->
            FGt(rel[1], pp.normalized_north_circle_offset[1])
      [] segment = SEGMENT_CIRCLE_SOUTH ->
            FLt(rel[1], pp.normalized_south_circle_offset[1])
      [] OTHER -> FALSE

InitFlight ==
    /\ Constructed
    /\ active_parameters \in FlightParameterSet
    /\ left = {}
    /\ args = [kind |-> "flight", curr_pos_local |-> <<0, 0>>,
               switch_distance |-> 0, beyond |-> FALSE]

FlightInitializePattern ==
    \E p \in FlightPoints, g \in GroundSpeeds, q \in FlightParameterSet :
        /\ InitializePattern(p, g, q)
        /\ args' = [args EXCEPT !.beyond = IF last'.classified THEN FALSE ELSE @]
        /\ UNCHANGED left

FlightResetPattern ==
    /\ ResetPattern
    /\ args' = [args EXCEPT !.beyond = FALSE]
    /\ UNCHANGED left

\* updateSetpoint tabulated over the states and the inputs of a flight: the
\* set of its (state, position, parameters, switch distance, result, relative
\* position) tuples.
updateSetpointOfFlight ==
    {<<st, p, q, d, updateSetpoint(st.segment, st.passed, p, q, d),
       calculatePositionToCenterNormalizedRotated(p, SanitizeParameters(q))>> :
        st \in SegmentStates, p \in FlightPoints, q \in FlightParameterSet,
        d \in SwitchDistances}

FlightUpdateSetpoint ==
    \E u \in updateSetpointOfFlight, t \in TargetAirspeeds, n \in {FALSE},
       e \in Eas2Tas :
        /\ u[1] = [segment |-> current_segment,
                   passed |-> pos_passed_circle_center_along_major_axis]
        /\ UpdateSetpointEffect(u[5], t, n, e)
        /\ args' = [kind |-> "flight", curr_pos_local |-> u[2],
                    switch_distance |-> u[4],
                    beyond |->
                        /\ current_segment \in {SEGMENT_CIRCLE_NORTH, SEGMENT_CIRCLE_SOUTH}
                        /\ \/ args.beyond
                           \/ BeyondCentre(current_segment, u[6], u[5].pattern_points)]
        /\ UNCHANGED left

NextFlight == FlightInitializePattern \/ FlightResetPattern \/ FlightUpdateSetpoint

\* The control loop calls updateSetpoint at a fixed rate for as long as the
\* manoeuvre lasts.
SpecFlight == InitFlight /\ [][NextFlight]_vars /\ WF_vars(FlightUpdateSetpoint)

----------------------------------------------------------------------------
(* Properties *)

\* The segment after a segment in the order the pattern is flown.
NextSegment(segment) ==
    CASE segment = SEGMENT_CIRCLE_NORTH -> SEGMENT_NORTHEAST_SOUTHWEST
      [] segment = SEGMENT_NORTHEAST_SOUTHWEST -> SEGMENT_CIRCLE_SOUTH
      [] segment = SEGMENT_CIRCLE_SOUTH -> SEGMENT_SOUTHEAST_NORTHWEST
      [] segment = SEGMENT_SOUTHEAST_NORTHWEST -> SEGMENT_CIRCLE_NORTH
      [] OTHER -> segment

Ticked == last.op = "updateSetpoint"

FEq(a, b) == a # NaN /\ b # NaN /\ a = b

VNeg(v) == <<FNeg(v[1]), FNeg(v[2])>>

VEq(a, b) == FEq(a[1], b[1]) /\ FEq(a[2], b[2])

\* C1: a tick changes the segment, if at all, to the next segment of the
\* cycle circle-north -> line NE-SW -> circle-south -> line SE-NW ->
\* circle-north: never backwards, never over a segment.
C1_TickAdvancesOneSegment ==
    Ticked => current_segment \in {pre.segment, NextSegment(pre.segment)}

\* C1 witness: a tick has closed the cycle, from line SE-NW to circle-north.
C1_Witness ==
    /\ Ticked
    /\ pre.segment = SEGMENT_SOUTHEAST_NORTHWEST
    /\ current_segment = SEGMENT_CIRCLE_NORTH

\* C2: with a vehicle that stays where it is, a feasible pattern that does
\* not change and a constant switch distance, the ticks never bring the
\* segment back to a segment they have left.
C2_StationaryNeverReturns == current_segment \notin left

\* C2 witness: the ticks have left circle-north and then line NE-SW, and have
\* come to rest in circle-south.
C2_Witness ==
    /\ Ticked
    /\ left = {SEGMENT_CIRCLE_NORTH, SEGMENT_NORTHEAST_SOUTHWEST}
    /\ current_segment = SEGMENT_CIRCLE_SOUTH
    /\ pre.segment = SEGMENT_CIRCLE_SOUTH

\* C3 as stated: the updateSetpoint call that follows a resetPattern ends
\* with one of the four defined segments.
C3_TickAfterResetIsDefined ==
    [][(last.op = "resetPattern" /\ last'.op = "updateSetpoint")
          => current_segment' \in DefinedSegments]_vars

\* C3 amended: the updateSetpoint call that follows a resetPattern leaves the
\* segment undefined and makes no navigate call (the segment of before the
\* reset is not resumed); the initializePattern call that follows a
\* resetPattern classifies, and ends with a defined segment and a cleared flag.
C3_AfterResetOnlyInitializeClassifies ==
    [][last.op = "resetPattern" =>
          /\ last'.op = "updateSetpoint" =>
                /\ current_segment' = SEGMENT_UNDEFINED
                /\ last'.element = NoCall
          /\ last'.op = "initializePattern" =>
                /\ last'.classified
                /\ current_segment' \in DefinedSegments
                /\ ~pos_passed_circle_center_along_major_axis']_vars

\* C3 witness: a tick has run on an undefined segment after earlier ticks had
\* set the airspeed setpoint, that is after a reset.
C3_Witness ==
    /\ Ticked
    /\ pre.segment = SEGMENT_UNDEFINED
    /\ current_segment = SEGMENT_UNDEFINED
    /\ indicated_airspeed_setpoint # 0

\* The setpoints are those the tick's navigate call left to read back.
SetpointsOfThisTick ==
    /\ last.element # NoCall
    /\ roll_setpoint = last.out.roll
    /\ indicated_airspeed_setpoint =
          IF last.use_npfg THEN RoundDiv(last.out.airspeed_ref * 4, last.eas2tas)
          ELSE last.target_airspeed

\* C4 as stated: after every updateSetpoint call the setpoints are those of
\* the navigate call of that tick.
C4_EveryTickSetsSetpoints == Ticked => SetpointsOfThisTick

\* C4 amended: after every updateSetpoint call that began with a defined
\* segment the setpoints are those of the navigate call of that tick; a call
\* that began with an undefined segment makes no navigate call.
C4_DefinedTickSetsSetpoints ==
    Ticked =>
        IF pre.segment \in DefinedSegments THEN SetpointsOfThisTick
        ELSE last.element = NoCall

\* C4 witness: a tick on the south circle has read back a roll setpoint.
C4_Witness ==
    /\ Ticked
    /\ current_segment = SEGMENT_CIRCLE_SOUTH
    /\ last.element.op = "navigateLoiter"
    /\ roll_setpoint = MaxRoll

\* C5: for finite radii the tick works with the minor radius as given and
\* with the major radius raised to exactly twice the minor radius when it
\* was below, unchanged otherwise; the circle it hands to the delegate has
\* that minor radius and lies major - minor from the pattern centre.
C5_MajorRadiusFloor ==
    (Ticked /\ args.kind = "updateSetpoint"
        /\ PX4_ISFINITE(args.parameters.loiter_radius)
        /\ PX4_ISFINITE(args.parameters.loiter_minor_radius)) =>
        LET given == args.parameters
            used == last.valid_parameters
        IN  /\ used.loiter_minor_radius = given.loiter_minor_radius
            /\ used.loiter_radius >= 2 * used.loiter_minor_radius
            /\ given.loiter_radius < 2 * given.loiter_minor_radius
                  => used.loiter_radius = 2 * given.loiter_minor_radius
            /\ given.loiter_radius >= 2 * given.loiter_minor_radius
                  => used.loiter_radius = given.loiter_radius
            /\ last.element.op = "navigateLoiter" =>
                  /\ last.element.radius = used.loiter_minor_radius
                  /\ Abs(Abs(last.element.center[1] - used.center_pos_local[1])
                         - (used.loiter_radius - used.loiter_minor_radius)) <= 1

\* C5 witness: a tick given major radius 30 and minor radius 20 has flown a
\* circle of a pattern of major radius 40.
C5_Witness ==
    /\ Ticked
    /\ args.kind = "updateSetpoint"
    /\ args.parameters = InfeasibleParameters
    /\ last.valid_parameters.loiter_radius = 40
    /\ last.element.op = "navigateLoiter"

\* C6 as stated: each south point is the negation of the north point of the
\* same name.
C6_SouthIsMinusNorth ==
    Ticked =>
        LET pp == last.pattern_points
        IN  /\ VEq(pp.normalized_south_circle_offset, VNeg(pp.normalized_north_circle_offset))
            /\ VEq(pp.normalized_south_entry_offset, VNeg(pp.normalized_north_entry_offset))
            /\ VEq(pp.normalized_south_exit_offset, VNeg(pp.normalized_north_exit_offset))

\* C6 amended: the south points are the negations of the north points with
\* entry and exit interchanged: south centre = -north centre, south entry =
\* -north exit, south exit = -north entry, in both coordinates.
C6_SouthIsMinusNorthSwapped ==
    Ticked =>
        LET pp == last.pattern_points
        IN  /\ VEq(pp.normalized_south_circle_offset, VNeg(pp.normalized_north_circle_offset))
            /\ VEq(pp.normalized_south_entry_offset, VNeg(pp.normalized_north_exit_offset))
            /\ VEq(pp.normalized_south_exit_offset, VNeg(pp.normalized_north_entry_offset))

\* C6 witness: a tick has computed the points of a pattern whose entry and
\* exit points lie off the major axis.
C6_Witness ==
    /\ Ticked
    /\ last.pattern_points.normalized_north_exit_offset[2] > 0
    /\ last.pattern_points.normalized_south_entry_offset[2] < 0

\* The vehicle of the single call is nearer to the north exit point than the
\* (positive) normalized switch distance.
NearNorthExit ==
    LET rel == calculatePositionToCenterNormalizedRotated(args.curr_pos_local,
                                                          last.valid_parameters)
        sw == SwitchDistanceNormalized(args.switch_distance, last.valid_parameters)
    IN  /\ FGt(sw, 0)
        /\ FLt(Norm(VSub(last.pattern_points.normalized_north_exit_offset, rel)), sw)

\* C7: a tick that begins in circle-north with the passed-center flag set
\* and finds the vehicle nearer to the north exit point than the switch
\* distance ends in line NE-SW.
C7_NorthExitReached ==
    (Ticked /\ args.kind = "updateSetpoint"
        /\ pre.segment = SEGMENT_CIRCLE_NORTH /\ pre.passed /\ NearNorthExit)
        => current_segment = SEGMENT_NORTHEAST_SOUTHWEST

\* C7 witness: the vehicle was exactly at the north exit point of the
\* reference pattern, (16, 12).
C7_Witness ==
    /\ Ticked
    /\ args.kind = "updateSetpoint"
    /\ pre.segment = SEGMENT_CIRCLE_NORTH
    /\ pre.passed
    /\ args.parameters = ReferenceParameters
    /\ args.curr_pos_local = <<16, 12>>
    /\ NearNorthExit
    /\ current_segment = SEGMENT_NORTHEAST_SOUTHWEST

\* The initializePattern call classified a vehicle at the north circle's
\* centre (zero lateral offset) flying north, or one beyond that centre.
ClassifiedNorthbound ==
    /\ last.op = "initializePattern"
    /\ args.kind = "initializePattern"
    /\ last.classified
    /\ FGt(Rotate(args.ground_speed, calculateRotationAngle(args.parameters))[1], 0)

RelativePosition ==
    calculatePositionToCenterNormalizedRotated(args.curr_pos_local, args.parameters)

NorthCircleOffset ==
    calculateFigureEightPoints(args.parameters).normalized_north_circle_offset

AtNorthCircleCentre ==
    /\ ClassifiedNorthbound
    /\ FEq(RelativePosition[1], NorthCircleOffset[1])
    /\ FEq(RelativePosition[2], 0)

\* C8 as stated: the classification of a northbound vehicle exactly at the
\* north circle's centre selects circle-north.
C8_AtCentreSelectsCircleNorth ==
    AtNorthCircleCentre => current_segment = SEGMENT_CIRCLE_NORTH

\* C8 amended: the classification of a northbound vehicle exactly at the
\* north circle's centre selects line SE-NW; it selects circle-north when
\* relative x is strictly greater than the north-circle-centre offset.
C8_AtCentreSelectsLine ==
    /\ AtNorthCircleCentre => current_segment = SEGMENT_SOUTHEAST_NORTHWEST
    /\ (ClassifiedNorthbound /\ FGt(RelativePosition[1], NorthCircleOffset[1]))
          => current_segment = SEGMENT_CIRCLE_NORTH

\* C8 witness: a vehicle at (25, 0), the north circle's centre of the
\* reference pattern, was classified into line SE-NW.
C8_Witness ==
    /\ AtNorthCircleCentre
    /\ args.parameters = ReferenceParameters
    /\ args.curr_pos_local = <<25, 0>>
    /\ current_segment = SEGMENT_SOUTHEAST_NORTHWEST

\* C9: resetPattern leaves the segment undefined and the flag false and
\* touches neither the last-applied parameters nor the setpoints; a second
\* resetPattern changes nothing; the initializePattern call that follows a
\* resetPattern classifies whatever its parameters.
C9_ResetIdempotentAndForcesInitialize ==
    [][/\ last'.op = "resetPattern" =>
            /\ current_segment' = SEGMENT_UNDEFINED
            /\ ~pos_passed_circle_center_along_major_axis'
            /\ active_parameters' = active_parameters
            /\ roll_setpoint' = roll_setpoint
            /\ indicated_airspeed_setpoint' = indicated_airspeed_setpoint
       /\ (last.op = "resetPattern" /\ last'.op = "resetPattern") =>
            /\ current_segment' = current_segment
            /\ pos_passed_circle_center_along_major_axis'
                  = pos_passed_circle_center_along_major_axis
       /\ (last.op = "resetPattern" /\ last'.op = "initializePattern") =>
            last'.classified]_vars

\* C9 witness: an initializePattern call has classified on an undefined
\* segment with the parameters that were already the last-applied ones,
\* after ticks had set the airspeed setpoint, that is after a reset.
C9_Witness ==
    /\ last.op = "initializePattern"
    /\ last.classified
    /\ ~last.changed
    /\ pre.segment = SEGMENT_UNDEFINED
    /\ indicated_airspeed_setpoint # 0

\* The path element of a segment: which circle, or which line.
IsElementOf(element, segment, parameters, pp) ==
    CASE segment = SEGMENT_CIRCLE_NORTH ->
            /\ element.op = "navigateLoiter"
            /\ ~element.counter_clockwise
            /\ element.center = OffsetToLocal(pp.normalized_north_circle_offset, parameters)
      [] segment = SEGMENT_CIRCLE_SOUTH ->
            /\ element.op = "navigateLoiter"
            /\ element.counter_clockwise
            /\ element.center = OffsetToLocal(pp.normalized_south_circle_offset, parameters)
      [] segment = SEGMENT_NORTHEAST_SOUTHWEST ->
            /\ element.op = "navigateWaypoints"
            /\ element.start = OffsetToLocal(pp.normalized_north_exit_offset, parameters)
            /\ element.end = OffsetToLocal(pp.normalized_south_entry_offset, parameters)
      [] segment = SEGMENT_SOUTHEAST_NORTHWEST ->
            /\ element.op = "navigateWaypoints"
            /\ element.start = OffsetToLocal(pp.normalized_south_exit_offset, parameters)
            /\ element.end = OffsetToLocal(pp.normalized_north_entry_offset, parameters)
      [] OTHER -> element = NoCall

\* C10: the path element a tick hands to the delegate is the one of the
\* segment as the tick's segment update left it.
C10_DispatchOnUpdatedSegment ==
    Ticked => IsElementOf(last.element, current_segment, last.valid_parameters,
                          last.pattern_points)

\* C10 witness: a tick has left circle-north and commanded the line NE-SW.
C10_Witness ==
    /\ Ticked
    /\ pre.segment = SEGMENT_CIRCLE_NORTH
    /\ current_segment = SEGMENT_NORTHEAST_SOUTHWEST
    /\ last.element.op = "navigateWaypoints"

\* The position of the last tick of a flight in the frame of the pattern.
FlightRelativePosition ==
    calculatePositionToCenterNormalizedRotated(args.curr_pos_local,
                                               last.valid_parameters)

\* The failsafe rule of a segment applies: in a circle, the flag is set and
\* the vehicle is on the positive lateral side, back below the north exit
\* point or back above the south exit point; on a line, the vehicle is past
\* the entry point of the circle ahead and not on the positive lateral side,
\* or beyond the major radius.
FailsafeRegion(segment, passed, rel, pp) ==
    CASE segment = SEGMENT_CIRCLE_NORTH ->
            /\ passed
            /\ FLt(rel[1], pp.normalized_north_exit_offset[1])
            /\ GtFltEpsilon(rel[2])
      [] segment = SEGMENT_NORTHEAST_SOUTHWEST ->
            \/ FLt(rel[1], pp.normalized_south_entry_offset[1]) /\ LtFltEpsilon(rel[2])
            \/ FLt(rel[1], -NORMALIZED_MAJOR_RADIUS)
      [] segment = SEGMENT_CIRCLE_SOUTH ->
            /\ passed
            /\ FGt(rel[1], pp.normalized_south_exit_offset[1])
            /\ GtFltEpsilon(rel[2])
      [] segment = SEGMENT_SOUTHEAST_NORTHWEST ->
            \/ FGt(rel[1], pp.normalized_north_entry_offset[1]) /\ LtFltEpsilon(rel[2])
            \/ FGt(rel[1], NORMALIZED_MAJOR_RADIUS)
      [] OTHER -> FALSE

\* C11 as stated: the ticks never leave the component in one defined segment
\* for ever; whatever the positions, the segment eventually changes.
C11_NeverStalls ==
    \A s \in DefinedSegments : (current_segment = s) ~> (current_segment # s)

\* C11 amended: a tick whose position satisfies the failsafe rule of the
\* segment it begins in advances to the next segment in that tick; a tick
\* that begins in a circle with the flag unset and finds the vehicle not
\* beyond the circle's centre stays in the circle (so that a vehicle that
\* never passes the centre keeps the component in that circle).
C11_FailsafeTickAdvances ==
    (Ticked /\ args.kind = "flight") =>
        /\ FailsafeRegion(pre.segment, pre.passed, FlightRelativePosition,
                          last.pattern_points)
              => current_segment = NextSegment(pre.segment)
        /\ (/\ pre.segment \in {SEGMENT_CIRCLE_NORTH, SEGMENT_CIRCLE_SOUTH}
            /\ ~pre.passed
            /\ ~BeyondCentre(pre.segment, FlightRelativePosition, last.pattern_points))
              => current_segment = pre.segment

\* C11 witness: a tick on line SE-NW found the vehicle at the north circle's
\* centre, 15 m from the north entry point with a switch distance of 4 m,
\* and advanced to circle-north by the failsafe rule.
C11_Witness ==
    /\ Ticked
    /\ args.kind = "flight"
    /\ pre.segment = SEGMENT_SOUTHEAST_NORTHWEST
    /\ last.valid_parameters = ReferenceParameters
    /\ args.curr_pos_local = <<25, 0>>
    /\ args.switch_distance = 4
    /\ current_segment = SEGMENT_CIRCLE_NORTH

CircleSegments == {SEGMENT_CIRCLE_NORTH, SEGMENT_CIRCLE_SOUTH}

LineSegments == {SEGMENT_NORTHEAST_SOUTHWEST, SEGMENT_SOUTHEAST_NORTHWEST}

\* C12: a tick leaves a circle segment only if, in that tick or in an
\* earlier tick since the circle segment was entered, relative x was strictly
\* beyond the circle's centre offset; and the passed-center flag is false
\* when a circle segment is entered, by a tick from the preceding line or by
\* a classification of initializePattern.
C12_CircleLeftOnlyAfterCentre ==
    /\ (Ticked /\ args.kind = "flight" /\ pre.segment \in CircleSegments
            /\ current_segment # pre.segment)
          => (args.beyond /\ current_segment = NextSegment(pre.segment))
    /\ (Ticked /\ pre.segment \in LineSegments /\ current_segment \in CircleSegments)
          => ~pos_passed_circle_center_along_major_axis
    /\ (last.op = "initializePattern" /\ last.classified
            /\ current_segment \in CircleSegments)
          => ~pos_passed_circle_center_along_major_axis

\* C12 witness: a tick has left circle-north with the vehicle at the north
\* exit point, short of the circle's centre, the centre having been passed in
\* an earlier tick.
C12_Witness ==
    /\ Ticked
    /\ args.kind = "flight"
    /\ pre.segment = SEGMENT_CIRCLE_NORTH
    /\ pre.passed
    /\ current_segment = SEGMENT_NORTHEAST_SOUTHWEST
    /\ last.valid_parameters = ReferenceParameters
    /\ args.curr_pos_local = <<16, 12>>
    /\ args.beyond

\* C13 as stated: the flag is false at the end of every tick that changes
\* the segment from a circle to a line, and after every classification of
\* initializePattern that selects a line.
C13_FlagClearedOnLineEntry ==
    /\ (Ticked /\ pre.segment \in CircleSegments /\ current_segment \in LineSegments)
          => ~pos_passed_circle_center_along_major_axis
    /\ (last.op = "initializePattern" /\ last.classified
            /\ current_segment \in LineSegments)
          => ~pos_passed_circle_center_along_major_axis

\* C13 amended: the flag is false at the end of every tick that begins in a
\* line segment and after every classification of initializePattern that
\* selects a line; at the end of the tick that changes the segment from a
\* circle to a line it is still set.
C13_FlagClearedByTickOnLine ==
    /\ (Ticked /\ pre.segment \in LineSegments)
          => ~pos_passed_circle_center_along_major_axis
    /\ (Ticked /\ pre.segment \in CircleSegments /\ current_segment \in LineSegments)
          => pos_passed_circle_center_along_major_axis
    /\ (last.op = "initializePattern" /\ last.classified
            /\ current_segment \in LineSegments)
          => ~pos_passed_circle_center_along_major_axis

\* C13 witness: a tick began on line NE-SW with the flag still set from the
\* north circle, stayed on the line and cleared the flag.
C13_Witness ==
    /\ Ticked
    /\ pre.segment = SEGMENT_NORTHEAST_SOUTHWEST
    /\ pre.passed
    /\ current_segment = SEGMENT_NORTHEAST_SOUTHWEST
    /\ ~pos_passed_circle_center_along_major_axis

\* C14: initializePattern classifies only when the segment is undefined or
\* the given parameters differ from the last-applied ones; with a defined
\* segment and parameters equal to the last-applied ones it leaves the
\* segment, the flag and the last-applied parameters as they are, whatever
\* the position and the velocity; when it classifies, it stores the given
\* parameters as last-applied and clears the flag.
C14_InitializeOnlyOnChange ==
    [][(last'.op = "initializePattern" /\ args.kind = "initializePattern") =>
          /\ last'.classified =>
                \/ current_segment = SEGMENT_UNDEFINED
                \/ args.parameters # active_parameters
          /\ (current_segment # SEGMENT_UNDEFINED
                /\ args.parameters = active_parameters) =>
                /\ ~last'.classified
                /\ current_segment' = current_segment
                /\ pos_passed_circle_center_along_major_axis'
                      = pos_passed_circle_center_along_major_axis
                /\ active_parameters' = active_parameters
          /\ last'.classified =>
                /\ active_parameters' = args.parameters
                /\ ~pos_passed_circle_center_along_major_axis'
                /\ current_segment' \in DefinedSegments]_vars

\* C14 witness: a call with the last-applied parameters, made in circle-north
\* with the flag set for a vehicle beyond the south end of the pattern, has
\* left circle-north and the flag as they were.
C14_Witness ==
    /\ last.op = "initializePattern"
    /\ args.kind = "initializePattern"
    /\ ~last.classified
    /\ args.parameters = ReferenceParameters
    /\ active_parameters = ReferenceParameters
    /\ args.curr_pos_local = <<-44, 0>>
    /\ current_segment = SEGMENT_CIRCLE_NORTH
    /\ pos_passed_circle_center_along_major_axis

\* An initializePattern call of a single-call run has classified.
Classified ==
    /\ last.op = "initializePattern"
    /\ args.kind = "initializePattern"
    /\ last.classified

\* The ground velocity of the call has a positive component along the major
\* axis of the pattern.
HeadingNorth ==
    FGt(Rotate(args.ground_speed, calculateRotationAngle(args.parameters))[1], 0)

SouthCircleOffset ==
    calculateFigureEightPoints(args.parameters).normalized_south_circle_offset

\* C15: a classification selects circle-north if relative x > 1; else
\* circle-south if relative x < -1; else, heading north, circle-north beyond
\* the north circle's centre offset and line SE-NW otherwise; else (heading
\* south), circle-south below the south circle's centre offset and line NE-SW
\* otherwise.
C15_ClassificationTable ==
    Classified =>
        current_segment =
            IF FGt(RelativePosition[1], NORMALIZED_MAJOR_RADIUS)
            THEN SEGMENT_CIRCLE_NORTH
            ELSE IF FLt(RelativePosition[1], -NORMALIZED_MAJOR_RADIUS)
            THEN SEGMENT_CIRCLE_SOUTH
            ELSE IF HeadingNorth
            THEN IF FGt(RelativePosition[1], NorthCircleOffset[1])
                 THEN SEGMENT_CIRCLE_NORTH ELSE SEGMENT_SOUTHEAST_NORTHWEST
            ELSE IF FLt(RelativePosition[1], SouthCircleOffset[1])
                 THEN SEGMENT_CIRCLE_SOUTH ELSE SEGMENT_NORTHEAST_SOUTHWEST

\* C15 witness: a vehicle at the centre of the reference pattern heading north
\* was classified into line SE-NW.
C15_Witness ==
    /\ Classified
    /\ args.parameters = ReferenceParameters
    /\ args.curr_pos_local = <<0, 0>>
    /\ args.ground_speed = <<15, 0>>
    /\ current_segment = SEGMENT_SOUTHEAST_NORTHWEST

\* An updateSetpoint call of a single-call run has been made.
TickedOnce == Ticked /\ args.kind = "updateSetpoint"

\* The position of that call in the frame of the pattern the tick works with.
TickRelativePosition ==
    calculatePositionToCenterNormalizedRotated(args.curr_pos_local,
                                               last.valid_parameters)

\* The tick began in circle-north with the flag set and found the vehicle
\* below the north exit point's x offset on the positive lateral side.
NorthFailsafeCase ==
    /\ TickedOnce
    /\ pre.segment = SEGMENT_CIRCLE_NORTH
    /\ pre.passed
    /\ FLt(TickRelativePosition[1], last.pattern_points.normalized_north_exit_offset[1])
    /\ GtFltEpsilon(TickRelativePosition[2])

\* The tick began in circle-south with the flag set and found the vehicle
\* above the south exit point's x offset.
AboveSouthExit ==
    /\ TickedOnce
    /\ pre.segment = SEGMENT_CIRCLE_SOUTH
    /\ pre.passed
    /\ FGt(TickRelativePosition[1], last.pattern_points.normalized_south_exit_offset[1])

\* The vehicle of the tick is nearer to the south exit point than the
\* normalized switch distance.
NearSouthExit ==
    FLt(Norm(VSub(last.pattern_points.normalized_south_exit_offset,
                  TickRelativePosition)),
        SwitchDistanceNormalized(args.switch_distance, last.valid_parameters))

\* C16 as stated: with the flag set, the failsafe exit of circle-north fires
\* below the north exit point's x offset on the positive lateral side, and
\* that of circle-south above the south exit point's x offset on the negative
\* lateral side (relative y < epsilon).
C16_SouthFailsafeOnNegativeSide ==
    /\ NorthFailsafeCase => current_segment = SEGMENT_NORTHEAST_SOUTHWEST
    /\ (AboveSouthExit /\ LtFltEpsilon(TickRelativePosition[2]))
          => current_segment = SEGMENT_SOUTHEAST_NORTHWEST

\* C16 amended: the failsafe exit of circle-south fires above the south exit
\* point's x offset on the positive lateral side, the side of both exit
\* points; off that side the south circle is left only near its exit point.
C16_SouthFailsafeOnPositiveSide ==
    /\ NorthFailsafeCase => current_segment = SEGMENT_NORTHEAST_SOUTHWEST
    /\ (AboveSouthExit /\ GtFltEpsilon(TickRelativePosition[2]))
          => current_segment = SEGMENT_SOUTHEAST_NORTHWEST
    /\ (AboveSouthExit /\ LtFltEpsilon(TickRelativePosition[2]) /\ ~NearSouthExit)
          => current_segment = SEGMENT_CIRCLE_SOUTH

\* C16 witness: a tick in circle-south with the flag set found the vehicle at
\* (16, 12), on the east side and far north of the south exit point, and left
\* the circle.
C16_Witness ==
    /\ AboveSouthExit
    /\ args.parameters = ReferenceParameters
    /\ args.curr_pos_local = <<16, 12>>
    /\ args.switch_distance = 4
    /\ ~NearSouthExit
    /\ current_segment = SEGMENT_SOUTHEAST_NORTHWEST

\* The exit conditions of the two lines, for the position of the tick: the
\* vehicle is nearer to the entry point of the circle ahead than the
\* normalized switch distance; or past that entry point along the major axis
\* and on the negative lateral side (relative y < epsilon); or beyond the
\* major radius at the end of the circle ahead.
NearPoint(offset) ==
    FLt(Norm(VSub(offset, TickRelativePosition)),
        SwitchDistanceNormalized(args.switch_distance, last.valid_parameters))

OvershotSouth == FLt(TickRelativePosition[1], -NORMALIZED_MAJOR_RADIUS)

OvershotNorth == FGt(TickRelativePosition[1], NORMALIZED_MAJOR_RADIUS)

LineNortheastSouthwestExit ==
    \/ NearPoint(last.pattern_points.normalized_south_entry_offset)
    \/ /\ FLt(TickRelativePosition[1], last.pattern_points.normalized_south_entry_offset[1])
       /\ LtFltEpsilon(TickRelativePosition[2])
    \/ OvershotSouth

LineSoutheastNorthwestExit ==
    \/ NearPoint(last.pattern_points.normalized_north_entry_offset)
    \/ /\ FGt(TickRelativePosition[1], last.pattern_points.normalized_north_entry_offset[1])
       /\ LtFltEpsilon(TickRelativePosition[2])
    \/ OvershotNorth

\* C17: a tick that begins on line NE-SW ends in circle-south exactly when
\* one of the three exit conditions holds and stays on the line otherwise; an
\* overshoot beyond -1 always advances it; line SE-NW mirrors this towards
\* circle-north.  The flag the tick begins with plays no part.
C17_LineExitConditions ==
    /\ (TickedOnce /\ pre.segment = SEGMENT_NORTHEAST_SOUTHWEST) =>
          /\ current_segment =
                IF LineNortheastSouthwestExit THEN SEGMENT_CIRCLE_SOUTH
                ELSE SEGMENT_NORTHEAST_SOUTHWEST
          /\ OvershotSouth => current_segment = SEGMENT_CIRCLE_SOUTH
    /\ (TickedOnce /\ pre.segment = SEGMENT_SOUTHEAST_NORTHWEST) =>
          /\ current_segment =
                IF LineSoutheastNorthwestExit THEN SEGMENT_CIRCLE_NORTH
                ELSE SEGMENT_SOUTHEAST_NORTHWEST
          /\ OvershotNorth => current_segment = SEGMENT_CIRCLE_NORTH

\* C17 witness: a tick on line NE-SW, begun with the flag set, found the
\* vehicle at (-44, 12): beyond the major radius, on the positive lateral
\* side and far from the south entry point; it advanced to circle-south.
C17_Witness ==
    /\ TickedOnce
    /\ pre.segment = SEGMENT_NORTHEAST_SOUTHWEST
    /\ pre.passed
    /\ args.parameters = ReferenceParameters
    /\ args.curr_pos_local = <<-44, 12>>
    /\ args.switch_distance = 4
    /\ OvershotSouth
    /\ ~NearPoint(last.pattern_points.normalized_south_entry_offset)
    /\ current_segment = SEGMENT_CIRCLE_SOUTH

\* A pattern point of the tick as a position of the local frame.
TickPoint(normalized_offset) == OffsetToLocal(normalized_offset, last.valid_parameters)

\* The navigate call of the tick went to the selected delegate only: NPFG was
\* given its airspeed settings exactly when it was the selected one, and the
\* airspeed setpoint is the target airspeed when L1 was.
OnSelectedDelegateOnly ==
    IF last.use_npfg
    THEN /\ last.airspeed_nom = NpfgAirspeed(last.target_airspeed, last.eas2tas)
         /\ last.airspeed_max = NpfgAirspeed(param_fw_airspd_max, last.eas2tas)
    ELSE /\ last.airspeed_nom = 0
         /\ last.airspeed_max = 0
         /\ indicated_airspeed_setpoint = last.target_airspeed

\* C18: a tick with a defined segment makes one navigate call, on the
\* selected delegate, for the path element of the segment it ends in:
\* circle-north is a clockwise loiter around the north circle's centre with
\* the minor radius, circle-south a counter-clockwise one around the south
\* circle's centre, line NE-SW the waypoints north exit -> south entry and
\* line SE-NW the waypoints south exit -> north entry.  A vehicle at the
\* start point of line NE-SW ends circle-north (flag set), and one at the end
\* point of line NE-SW ends that line.
C18_ElementOfEachSegment ==
    (TickedOnce /\ pre.segment \in DefinedSegments) =>
        LET pp == last.pattern_points
            element == last.element
        IN  /\ element # NoCall
            /\ OnSelectedDelegateOnly
            /\ current_segment = SEGMENT_CIRCLE_NORTH =>
                  element = [op |-> "navigateLoiter",
                             center |-> TickPoint(pp.normalized_north_circle_offset),
                             radius |-> last.valid_parameters.loiter_minor_radius,
                             counter_clockwise |-> FALSE]
            /\ current_segment = SEGMENT_CIRCLE_SOUTH =>
                  element = [op |-> "navigateLoiter",
                             center |-> TickPoint(pp.normalized_south_circle_offset),
                             radius |-> last.valid_parameters.loiter_minor_radius,
                             counter_clockwise |-> TRUE]
            /\ current_segment = SEGMENT_NORTHEAST_SOUTHWEST =>
                  element = [op |-> "navigateWaypoints",
                             start |-> TickPoint(pp.normalized_north_exit_offset),
                             end |-> TickPoint(pp.normalized_south_entry_offset)]
            /\ current_segment = SEGMENT_SOUTHEAST_NORTHWEST =>
                  element = [op |-> "navigateWaypoints",
                             start |-> TickPoint(pp.normalized_south_exit_offset),
                             end |-> TickPoint(pp.normalized_north_entry_offset)]
            /\ (pre.segment = SEGMENT_CIRCLE_NORTH /\ pre.passed
                  /\ args.curr_pos_local = TickPoint(pp.normalized_north_exit_offset)) =>
                  /\ current_segment = SEGMENT_NORTHEAST_SOUTHWEST
                  /\ element.start = args.curr_pos_local
            /\ (pre.segment = SEGMENT_NORTHEAST_SOUTHWEST
                  /\ element.op = "navigateWaypoints") =>
                  args.curr_pos_local # element.end

\* C18 witness: a tick with NPFG selected has left circle-north at the north
\* exit point of the reference pattern and commanded the line from (16, 12)
\* to (-16, -12).
C18_Witness ==
    /\ TickedOnce
    /\ last.use_npfg
    /\ pre.segment = SEGMENT_CIRCLE_NORTH
    /\ pre.passed
    /\ args.parameters = ReferenceParameters
    /\ args.curr_pos_local = <<16, 12>>
    /\ last.element = [op |-> "navigateWaypoints",
                       start |-> <<16, 12>>, end |-> <<-16, -12>>]

\* The mirror image of a segment: the circles and the lines interchanged.
MirrorSegment(segment) ==
    CASE segment = SEGMENT_CIRCLE_NORTH -> SEGMENT_CIRCLE_SOUTH
      [] segment = SEGMENT_CIRCLE_SOUTH -> SEGMENT_CIRCLE_NORTH
      [] segment = SEGMENT_NORTHEAST_SOUTHWEST -> SEGMENT_SOUTHEAST_NORTHWEST
      [] segment = SEGMENT_SOUTHEAST_NORTHWEST -> SEGMENT_NORTHEAST_SOUTHWEST
      [] OTHER -> segment

\* The position of the call reflected in the pattern centre: its position
\* relative to the centre negated.
MirroredPosition ==
    VSub(VAdd(args.parameters.center_pos_local, args.parameters.center_pos_local),
         args.curr_pos_local)

\* The segment a classification selects for the reflected position and the
\* negated ground velocity.
MirroredClassification ==
    ClassifySegment(MirroredPosition, VNeg(args.ground_speed), args.parameters)

\* The ground velocity of the call has no component along the major axis.
HeadingAcross ==
    Rotate(args.ground_speed, calculateRotationAngle(args.parameters))[1] = 0

\* C19 as stated: for every position and every ground velocity, the segment
\* selected for the reflected position and negated velocity is the mirror
\* image of the segment selected.
C19_ClassificationSymmetric ==
    Classified => MirroredClassification = MirrorSegment(current_segment)

\* C19 amended: the mirror relation holds for every ground velocity with a
\* non-zero component along the major axis; a velocity with a zero component
\* is classified as heading south and so is its negation: within the major
\* radius both select circle-south or line NE-SW.
C19_ClassificationSymmetricUnlessAcross ==
    Classified =>
        IF ~HeadingAcross
        THEN MirroredClassification = MirrorSegment(current_segment)
        ELSE (/\ ~FGt(RelativePosition[1], NORMALIZED_MAJOR_RADIUS)
              /\ ~FLt(RelativePosition[1], -NORMALIZED_MAJOR_RADIUS)) =>
                /\ current_segment
                      \in {SEGMENT_CIRCLE_SOUTH, SEGMENT_NORTHEAST_SOUTHWEST}
                /\ MirroredClassification
                      \in {SEGMENT_CIRCLE_SOUTH, SEGMENT_NORTHEAST_SOUTHWEST}

\* C19 witness: a southbound vehicle at (-8, 12), short of the south circle
\* of the reference pattern, was classified into line NE-SW, and its mirror
\* image, northbound at (8, -12), into line SE-NW.
C19_Witness ==
    /\ Classified
    /\ args.parameters = ReferenceParameters
    /\ args.curr_pos_local = <<-8, 12>>
    /\ args.ground_speed = <<-15, 0>>
    /\ current_segment = SEGMENT_NORTHEAST_SOUTHWEST
    /\ MirroredPosition = <<8, -12>>
    /\ MirroredClassification = SEGMENT_SOUTHEAST_NORTHWEST

\* C20: updateSetpoint keeps an undefined segment undefined (making no
\* transition and no navigate call and leaving the flag and both setpoints as
\* they are) and a defined segment defined; every initializePattern call ends
\* with a defined segment; a step from defined to undefined is a
\* resetPattern, and a step from undefined to defined an initializePattern.
C20_DefinednessChangesByInitializeAndReset ==
    [][/\ last'.op = "updateSetpoint" =>
            /\ (current_segment' = SEGMENT_UNDEFINED)
                  = (current_segment = SEGMENT_UNDEFINED)
            /\ current_segment = SEGMENT_UNDEFINED =>
                  /\ last'.element = NoCall
                  /\ pos_passed_circle_center_along_major_axis'
                        = pos_passed_circle_center_along_major_axis
                  /\ roll_setpoint' = roll_setpoint
                  /\ indicated_airspeed_setpoint' = indicated_airspeed_setpoint
       /\ last'.op = "initializePattern" => current_segment' \in DefinedSegments
       /\ last'.op = "resetPattern" => current_segment' = SEGMENT_UNDEFINED
       /\ (current_segment \in DefinedSegments
             /\ current_segment' = SEGMENT_UNDEFINED) => last'.op = "resetPattern"
       /\ (current_segment = SEGMENT_UNDEFINED
             /\ current_segment' \in DefinedSegments) => last'.op = "initializePattern"
      ]_vars

\* C20 witness: a tick on an undefined segment has made no navigate call and
\* left in place the roll setpoint an earlier tick had read back.
C20_Witness ==
    /\ Ticked
    /\ pre.segment = SEGMENT_UNDEFINED
    /\ current_segment = SEGMENT_UNDEFINED
    /\ last.element = NoCall
    /\ roll_setpoint = MaxRoll

\* C21: updateSetpoint leaves the last-applied parameters as they are,
\* whatever parameters it is given: it keeps the segment or advances it to
\* the next one of the pattern, and it clears the flag on a line segment
\* only, where every tick clears it.  The last-applied parameters change in
\* a classifying initializePattern call only, which stores the parameters
\* exactly as the caller gave them.  An initializePattern call on a defined
\* segment with parameters equal to the last-applied ones, or made right
\* after an initializePattern call with the same parameters, classifies
\* nothing and leaves the segment, the flag and the last-applied parameters
\* as they are.
C21_OnlyInitializeStoresParameters ==
    [][/\ last'.op = "updateSetpoint" =>
            /\ active_parameters' = active_parameters
            /\ current_segment' \in {current_segment, NextSegment(current_segment)}
            /\ (pos_passed_circle_center_along_major_axis
                  /\ ~pos_passed_circle_center_along_major_axis') =>
                  current_segment \in LineSegments
       /\ last'.op = "resetPattern" => active_parameters' = active_parameters
       /\ active_parameters' # active_parameters =>
            /\ last'.op = "initializePattern"
            /\ last'.classified
       /\ (last'.op = "initializePattern" /\ last'.classified) =>
            active_parameters' = last'.parameters
       /\ (/\ last'.op = "initializePattern"
           /\ \/ /\ current_segment # SEGMENT_UNDEFINED
                 /\ last'.parameters = active_parameters
              \/ /\ last.op = "initializePattern"
                 /\ last'.parameters = last.parameters) =>
            /\ ~last'.classified
            /\ current_segment' = current_segment
            /\ pos_passed_circle_center_along_major_axis'
                  = pos_passed_circle_center_along_major_axis
            /\ active_parameters' = active_parameters
      ]_vars

\* C21 witness: an initializePattern call with the infeasible parameters
\* (major radius 30, minor radius 20), which are the last-applied ones, has
\* classified nothing on a segment whose flag a tick had set since they were
\* stored, and has left the flag set.
C21_Witness ==
    /\ last.op = "initializePattern"
    /\ ~last.classified
    /\ last.parameters = InfeasibleParameters
    /\ active_parameters = InfeasibleParameters
    /\ SanitizeParameters(InfeasibleParameters) # InfeasibleParameters
    /\ pre.passed
    /\ pos_passed_circle_center_along_major_axis

====
